---- MODULE Spec2Model ----
(***************************************************************************)
(* Model of server/scripts/parse_python_pipeline.py: the translator that   *)
(* reads a pandas script, walks its syntax tree once with                  *)
(* PipelineExtractor and prints one JSON document {steps, fallbackToLlm}.  *)
(*                                                                         *)
(* Python values and syntax-tree nodes are records.  A node carries its    *)
(* class in the field t and the attributes the program reads; a value      *)
(* carries its Python type in the field ty.                                *)
(***************************************************************************)
EXTENDS Integers, Sequences, FiniteSets, TLC

(***************************************************************************)
(* Python values                                                           *)
(***************************************************************************)
None == [ty |-> "none"]
PStr(s) == [ty |-> "str", s |-> s]
PInt(n) == [ty |-> "int", n |-> n]
\* an int literal with more decimal digits than int-to-str conversion allows
\* (written in hexadecimal, so the parser accepts it)
PBigInt == [ty |-> "bigint"]
PBool(b) == [ty |-> "bool", b |-> b]
PBytes(s) == [ty |-> "bytes", s |-> s]
PList(items) == [ty |-> "list", items |-> items]

IsNode(x) == "t" \in DOMAIN x
HasAttr(x, a) == a \in DOMAIN x
IsInstance(x, cls) == IsNode(x) /\ x.t = cls
IsStr(v) == ~IsNode(v) /\ v.ty = "str"

\* bool(x): the truth value Python gives an object
Truthy(x) ==
    IF IsNode(x) THEN TRUE
    ELSE CASE x.ty = "none" -> FALSE
           [] x.ty = "str" -> x.s # ""
           [] x.ty = "bytes" -> x.s # ""
           [] x.ty = "int" -> x.n # 0
           [] x.ty = "bool" -> x.b
           [] x.ty = "list" -> x.items # <<>>
           [] OTHER -> TRUE

\* x or y
Or(x, y) == IF Truthy(x) THEN x ELSE y

\* str(val) raises ValueError for an int beyond the digit limit
StrRaises(v) == v.ty = "bigint"

\* str(val)
Str(v) ==
    CASE v.ty = "str" -> v
      [] v.ty = "int" -> PStr(ToString(v.n))
      [] v.ty = "bool" -> PStr(IF v.b THEN "True" ELSE "False")
      [] v.ty = "bytes" -> PStr("b'" \o v.s \o "'")
      [] v.ty = "none" -> PStr("None")

(***************************************************************************)
(* Syntax-tree nodes (module ast)                                          *)
(***************************************************************************)
Constant(v) == [t |-> "Constant", value |-> v]
Name(id) == [t |-> "Name", id |-> id]
Attribute(value, attr) == [t |-> "Attribute", value |-> value, attr |-> attr]
Subscript(value, slice) == [t |-> "Subscript", value |-> value, slice |-> slice]
ListNode(elts) == [t |-> "List", elts |-> elts]
TupleNode(elts) == [t |-> "Tuple", elts |-> elts]
Compare(left, ops, comparators) ==
    [t |-> "Compare", left |-> left, ops |-> ops, comparators |-> comparators]
BinOp(left, op, right) == [t |-> "BinOp", left |-> left, op |-> op, right |-> right]
keyword(arg, value) == [t |-> "keyword", arg |-> arg, value |-> value]
Call(func, args, keywords) ==
    [t |-> "Call", func |-> func, args |-> args, keywords |-> keywords]

StrC(s) == Constant(PStr(s))
\* df["col"]
Col(s) == Subscript(Name("df"), StrC(s))

(***************************************************************************)
(* Extractors                                                              *)
(***************************************************************************)
FILTER_OPS ==
    [Eq |-> "eq", NotEq |-> "neq", Lt |-> "lt", LtE |-> "lt", Gt |-> "gt", GtE |-> "gt"]

get_constant_value(node) ==
    IF IsInstance(node, "Constant") THEN node.value ELSE None

\* (the ast.Index branch is dead for the trees ast.parse builds since Python 3.9,
\* where a subscript's slice is the expression itself)
RECURSIVE get_string_from_node(_)
get_string_from_node(node) ==
    IF IsInstance(node, "Constant") /\ IsStr(node.value) THEN node.value
    ELSE IF IsInstance(node, "Subscript") THEN get_string_from_node(node.slice)
    ELSE None

\* the strings of the elements that resolve, in order
ResolvedStrings(elts) ==
    SelectSeq([i \in DOMAIN elts |-> get_string_from_node(elts[i])],
              LAMBDA s : s # None)

get_column_list(node) ==
    IF IsInstance(node, "Subscript")
    THEN LET slc0 == node.slice
             slc == IF HasAttr(slc0, "value") THEN slc0.value ELSE slc0
         IN  IF HasAttr(slc, "elts")
             THEN LET cols == ResolvedStrings(slc.elts)
                  IN  IF cols # <<>> THEN PList(cols) ELSE None
             ELSE None
    ELSE None

\* A source line is a sequence of tokens; the token " " is whitespace.
IsSpace(tok) == tok = " "

RECURSIVE JoinLines(_)
JoinLines(ls) ==
    IF Len(ls) = 0 THEN <<>>
    ELSE IF Len(ls) = 1 THEN ls[1]
    ELSE ls[1] \o <<" ">> \o JoinLines(Tail(ls))

RECURSIVE LStrip(_)
LStrip(toks) ==
    IF Len(toks) > 0 /\ IsSpace(toks[1]) THEN LStrip(Tail(toks)) ELSE toks

RECURSIVE RStrip(_)
RStrip(toks) ==
    IF Len(toks) > 0 /\ IsSpace(toks[Len(toks)])
    THEN RStrip(SubSeq(toks, 1, Len(toks) - 1))
    ELSE toks

RECURSIVE Text(_)
Text(toks) == IF Len(toks) = 0 THEN "" ELSE toks[1] \o Text(Tail(toks))

\* source_lines[start:end]
Slice(ls, start, end) ==
    LET hi == IF end < Len(ls) THEN end ELSE Len(ls)
    IN  IF start < hi THEN SubSeq(ls, start + 1, hi) ELSE <<>>

\* node is the record that carries the expression's lineno and end_lineno
unparse_simple(node, source_lines) ==
    IF HasAttr(node, "lineno") /\ HasAttr(node, "end_lineno")
    THEN LET start == node.lineno - 1
             end == IF node.end_lineno # 0 THEN node.end_lineno ELSE node.lineno
         IN  PStr(Text(RStrip(LStrip(JoinLines(Slice(source_lines, start, end))))))
    ELSE PStr("")

(***************************************************************************)
(* Statements                                                              *)
(* lineno and end_lineno of an Assign are those of its value expression,   *)
(* the only position the program reads.                                    *)
(***************************************************************************)
Assign(targets, value) ==
    [t |-> "Assign", targets |-> targets, value |-> value, lineno |-> 1, end_lineno |-> 1]
AugAssign(target, op, value) ==
    [t |-> "AugAssign", target |-> target, op |-> op, value |-> value,
     lineno |-> 1, end_lineno |-> 1]
AnnAssign(target, annotation, value) ==
    [t |-> "AnnAssign", target |-> target, annotation |-> annotation, value |-> value,
     lineno |-> 1, end_lineno |-> 1]
Expr(value) == [t |-> "Expr", value |-> value, lineno |-> 1, end_lineno |-> 1]
If(test, body, orelse) ==
    [t |-> "If", test |-> test, body |-> body, orelse |-> orelse,
     lineno |-> 1, end_lineno |-> 1]
FunctionDef(name, body) ==
    [t |-> "FunctionDef", name |-> name, body |-> body, lineno |-> 1, end_lineno |-> 1]

(***************************************************************************)
(* PipelineExtractor: the accumulator and the recognizers of visit_Assign  *)
(***************************************************************************)
df_name == "df"

Step(kind, config) == [kind |-> kind, config |-> config]
NoStep == [declined |-> TRUE]

\* the accumulator: self.steps and self.fallback_to_llm
Extractor(steps, fallback_to_llm) ==
    [steps |-> steps, fallback_to_llm |-> fallback_to_llm]

add_step(ex, step) == Extractor(Append(ex.steps, step), ex.fallback_to_llm)

\* the flag set and the steps dropped
set_fallback_discarding(ex) == Extractor(<<>>, TRUE)

set_fallback(ex) == Extractor(ex.steps, TRUE)

\* value.slice with the Index wrapper (any object with a value attribute) removed
slice_val(value) ==
    IF HasAttr(value.slice, "value") THEN value.slice.value ELSE value.slice

\* df = df[df["col"] op value]: the conditions of the filter idiom
filter_matches(value) ==
    /\ IsInstance(value, "Subscript")
    /\ LET sv == slice_val(value)
       IN  /\ IsInstance(sv, "Compare")
           /\ Len(sv.comparators) = 1
           /\ Truthy(get_string_from_node(sv.left))
           /\ sv.ops[1] \in DOMAIN FILTER_OPS
           /\ get_constant_value(sv.comparators[1]) # None

\* str(val) of the filter idiom raises
filter_raises(value) ==
    /\ filter_matches(value)
    /\ StrRaises(get_constant_value(slice_val(value).comparators[1]))

filter_step(value) ==
    IF filter_matches(value)
    THEN LET sv == slice_val(value)
         IN  Step("filter",
                  [column |-> get_string_from_node(sv.left),
                   operator |-> PStr(FILTER_OPS[sv.ops[1]]),
                   value |-> Str(get_constant_value(sv.comparators[1]))])
    ELSE NoStep

\* df = df[["a", "b"]]
select_step(value) ==
    IF IsInstance(value, "Subscript") /\ get_column_list(value) # None
    THEN Step("select", [columns |-> get_column_list(value)])
    ELSE NoStep

IsMethodCall(value) == IsInstance(value, "Call") /\ IsInstance(value.func, "Attribute")

\* df = pd.read_csv(...)
datasource_step(value) ==
    IF /\ IsMethodCall(value)
       /\ value.func.attr = "read_csv"
       /\ IsInstance(value.func.value, "Name")
       /\ value.func.value.id \in {"pd", "pandas"}
    THEN LET s == IF Len(value.args) > 0 THEN get_string_from_node(value.args[1])
                  ELSE None
             fname == IF Truthy(s) THEN s ELSE PStr("")
         IN  Step("dataSource", [fileName |-> Or(fname, PStr("data.csv"))])
    ELSE NoStep

\* for keyword in keywords: if keyword.arg == name: s = get_string_from_node(...);
\* if s: col = s
RECURSIVE keyword_string(_, _, _)
keyword_string(keywords, name, col) ==
    IF Len(keywords) = 0 THEN col
    ELSE LET kw == keywords[1]
             s == get_string_from_node(kw.value)
         IN  keyword_string(Tail(keywords), name,
                            IF kw.arg = name /\ Truthy(s) THEN s ELSE col)

\* df = df.groupby(...): recognized from the groupby call alone
groupby_step(value) ==
    IF IsMethodCall(value) /\ value.func.attr = "groupby"
    THEN LET group_col0 ==
                 IF Len(value.args) > 0 /\ IsInstance(value.args[1], "Constant")
                 THEN value.args[1].value
                 ELSE IF Len(value.args) > 0 THEN get_string_from_node(value.args[1])
                 ELSE PStr("")
             agg_col ==
                 IF IsInstance(value.func.value, "Subscript")
                 THEN Or(get_string_from_node(value.func.value.slice), group_col0)
                 ELSE group_col0
             group_col == keyword_string(value.keywords, "by", group_col0)
         IN  Step("groupBy",
                  [groupByColumn |-> group_col,
                   aggregateColumn |-> agg_col,
                   aggregation |-> PStr("count")])
    ELSE NoStep

AGG_METHODS == {"sum", "mean", "count", "min", "max"}

\* while prev: ... prev = getattr(prev, "value", None)
RECURSIVE chain_walk(_, _)
chain_walk(prev, agg_col) ==
    IF ~Truthy(prev) THEN [group_col |-> PStr(""), agg_col |-> agg_col]
    ELSE IF /\ IsInstance(prev, "Call")
            /\ HasAttr(prev.func, "attr")
            /\ prev.func.attr = "groupby"
    THEN [group_col |-> IF Len(prev.args) > 0
                        THEN Or(get_string_from_node(prev.args[1]), PStr(""))
                        ELSE PStr(""),
          agg_col |-> agg_col]
    ELSE chain_walk(IF HasAttr(prev, "value") THEN prev.value ELSE None,
                    IF IsInstance(prev, "Subscript")
                    THEN Or(get_string_from_node(prev.slice), PStr(""))
                    ELSE agg_col)

\* df = df.groupby("x")["y"].sum()
chained_step(value) ==
    IF IsMethodCall(value) /\ value.func.attr \in AGG_METHODS
    THEN LET w == chain_walk(value.func.value, PStr(""))
             agg_method == IF value.func.attr = "mean" THEN "avg" ELSE value.func.attr
         IN  Step("groupBy",
                  [groupByColumn |-> w.group_col,
                   aggregateColumn |-> Or(w.agg_col, w.group_col),
                   aggregation |-> PStr(agg_method)])
    ELSE NoStep

\* for kw in keywords: if kw.arg == "ascending": v = get_constant_value(kw.value);
\* if v is not None: ascending = bool(v)
RECURSIVE keyword_ascending(_, _)
keyword_ascending(keywords, ascending) ==
    IF Len(keywords) = 0 THEN ascending
    ELSE LET kw == keywords[1]
             v == get_constant_value(kw.value)
         IN  keyword_ascending(Tail(keywords),
                               IF kw.arg = "ascending" /\ v # None THEN Truthy(v)
                               ELSE ascending)

\* df = df.sort_values(...)
sort_step(value) ==
    IF IsMethodCall(value) /\ value.func.attr = "sort_values"
    THEN LET col0 == IF Len(value.args) > 0
                     THEN Or(get_string_from_node(value.args[1]), PStr(""))
                     ELSE PStr("")
             col == keyword_string(value.keywords, "by", col0)
             ascending == keyword_ascending(value.keywords, TRUE)
         IN  Step("sort",
                  [column |-> col,
                   direction |-> PStr(IF ascending THEN "asc" ELSE "desc")])
    ELSE NoStep

\* for kw in keywords: if kw.arg == "value_vars" and it is a list or tuple:
\* append every element string that is non-empty
RECURSIVE melt_value_vars(_)
melt_value_vars(keywords) ==
    IF Len(keywords) = 0 THEN <<>>
    ELSE LET kw == keywords[1]
         IN  (IF kw.arg = "value_vars" /\ IsNode(kw.value) /\ kw.value.t \in {"List", "Tuple"}
              THEN SelectSeq(ResolvedStrings(kw.value.elts), Truthy)
              ELSE <<>>) \o melt_value_vars(Tail(keywords))

\* df = df.melt(...); id_vars is collected by the code and never used
melt_step(value) ==
    IF /\ IsMethodCall(value)
       /\ value.func.attr = "melt"
       /\ melt_value_vars(value.keywords) # <<>>
    THEN Step("reshape",
              [keyColumn |-> keyword_string(value.keywords, "var_name", PStr("variable")),
               valueColumn |-> keyword_string(value.keywords, "value_name", PStr("value")),
               pivotColumns |-> PList(melt_value_vars(value.keywords))])
    ELSE NoStep

\* df["new_col"] = expression: the target names a column
computed_target(node) ==
    /\ IsInstance(node.targets[1], "Subscript")
    /\ get_string_from_node(node.targets[1]) # None

computed_step(node, lines) ==
    IF computed_target(node) /\ Truthy(unparse_simple(node, lines))
    THEN Step("computedColumn",
              [newColumnName |-> get_string_from_node(node.targets[1]),
               expression |-> unparse_simple(node, lines)])
    ELSE NoStep

(***************************************************************************)
(* PipelineExtractor.visit_Assign, visit_Expr, generic_visit               *)
(***************************************************************************)
\* the visit raises (caught by main): str(val) in the filter idiom
visit_raises(node) ==
    /\ IsInstance(node, "Assign")
    /\ Len(node.targets) = 1
    /\ filter_raises(node.value)

\* the computedColumn recognizer tried before the right-hand side idioms
visit_Assign_target_first(node, ex, lines) ==
    IF Len(node.targets) # 1 THEN ex
    ELSE LET target == node.targets[1]
             value == node.value
         IN  IF computed_step(node, lines) # NoStep
             THEN add_step(ex, computed_step(node, lines))
             ELSE IF filter_step(value) # NoStep THEN add_step(ex, filter_step(value))
             ELSE IF select_step(value) # NoStep THEN add_step(ex, select_step(value))
             ELSE IF datasource_step(value) # NoStep
                  THEN add_step(ex, datasource_step(value))
             ELSE IF groupby_step(value) # NoStep THEN add_step(ex, groupby_step(value))
             ELSE IF chained_step(value) # NoStep THEN add_step(ex, chained_step(value))
             ELSE IF sort_step(value) # NoStep THEN add_step(ex, sort_step(value))
             ELSE IF melt_step(value) # NoStep THEN add_step(ex, melt_step(value))
             ELSE LET ex1 == IF computed_target(node) THEN set_fallback(ex) ELSE ex
                  IN  IF IsInstance(target, "Name") /\ target.id = df_name
                      THEN set_fallback(ex1)
                      ELSE ex1

visit_Assign(node, ex, lines) ==
    IF Len(node.targets) # 1 THEN ex
    ELSE LET target == node.targets[1]
             value == node.value
         IN  IF filter_step(value) # NoStep THEN add_step(ex, filter_step(value))
             ELSE IF select_step(value) # NoStep THEN add_step(ex, select_step(value))
             ELSE IF datasource_step(value) # NoStep
                  THEN add_step(ex, datasource_step(value))
             ELSE IF groupby_step(value) # NoStep THEN add_step(ex, groupby_step(value))
             ELSE IF chained_step(value) # NoStep THEN add_step(ex, chained_step(value))
             ELSE IF sort_step(value) # NoStep THEN add_step(ex, sort_step(value))
             ELSE IF melt_step(value) # NoStep THEN add_step(ex, melt_step(value))
             ELSE IF computed_step(node, lines) # NoStep
                  THEN add_step(ex, computed_step(node, lines))
             ELSE LET ex1 == IF computed_target(node) THEN set_fallback(ex) ELSE ex
                  IN  IF IsInstance(target, "Name") /\ target.id = df_name
                      THEN set_fallback(ex1)
                      ELSE ex1

CHART_METHODS == {"bar", "plot", "scatter", "pie"}

chart_matches(node) ==
    /\ IsInstance(node.value, "Call")
    /\ IsInstance(node.value.func, "Attribute")
    /\ IsInstance(node.value.func.value, "Attribute")
    /\ \/ node.value.func.value.attr = "pyplot"
       \/ IsInstance(node.value.func.value, "Name") /\ node.value.func.value.id = "plt"
    /\ node.value.func.attr \in CHART_METHODS

chart_type(chart_attr) ==
    IF chart_attr = "plot" THEN "line"
    ELSE IF chart_attr = "scatter" THEN "scatter"
    ELSE IF chart_attr = "pie" THEN "pie"
    ELSE "bar"

chart_step(node) ==
    IF chart_matches(node)
    THEN LET call == node.value
             x_axis == IF Len(call.args) >= 2
                       THEN Or(get_string_from_node(call.args[1]), PStr(""))
                       ELSE PStr("")
             y_axis == IF Len(call.args) >= 2
                       THEN Or(get_string_from_node(call.args[2]), PStr(""))
                       ELSE IF Len(call.args) = 1
                       THEN Or(get_string_from_node(call.args[1]), PStr(""))
                       ELSE PStr("")
         IN  Step("chart",
                  [chartType |-> PStr(chart_type(call.func.attr)),
                   xAxis |-> x_axis,
                   yAxis |-> y_axis])
    ELSE NoStep

visit_Expr(node, ex) ==
    IF chart_step(node) # NoStep THEN add_step(ex, chart_step(node)) ELSE ex

\* orelse before body
generic_visit_orelse_first(node) ==
    (IF HasAttr(node, "orelse") THEN node.orelse ELSE <<>>)
        \o (IF HasAttr(node, "body") THEN node.body ELSE <<>>)

\* the statements generic_visit reaches below a node, in field order
generic_visit(node) ==
    (IF HasAttr(node, "body") THEN node.body ELSE <<>>)
        \o (IF HasAttr(node, "orelse") THEN node.orelse ELSE <<>>)

(***************************************************************************)
(* main: serialization                                                     *)
(***************************************************************************)
\* json.dumps raises TypeError (bytes) or ValueError (int beyond the digit limit)
json_raises(v) == v.ty \in {"bytes", "bigint"}

dumps_raises(steps) ==
    \E i \in DOMAIN steps :
        \E k \in DOMAIN steps[i].config : json_raises(steps[i].config[k])

RECURSIVE to_json(_)
to_json(v) ==
    CASE v.ty = "str" -> [json |-> "string", s |-> v.s]
      [] v.ty = "int" -> [json |-> "number", n |-> v.n]
      [] v.ty = "bool" -> [json |-> IF v.b THEN "true" ELSE "false"]
      [] v.ty = "none" -> [json |-> "null"]
      [] v.ty = "list" ->
            [json |-> "array", items |-> [i \in DOMAIN v.items |-> to_json(v.items[i])]]

\* nodes = [{"type": s["kind"], "config": s["config"]} for s in extractor.steps]
nodes_of(steps) ==
    [i \in DOMAIN steps |->
        [type |-> steps[i].kind,
         config |-> [k \in DOMAIN steps[i].config |-> to_json(steps[i].config[k])]]]

result_of(steps, fallback) ==
    [steps |-> nodes_of(steps), fallbackToLlm |-> (fallback \/ Len(steps) = 0)]

Failure == [steps |-> <<>>, fallbackToLlm |-> TRUE]

(***************************************************************************)
(* Input: a source text as the program sees it.  text is what              *)
(* source.splitlines() returns, stmts is the body of the tree ast.parse    *)
(* returns for it (positions counted in the parser's lines), grammar tells *)
(* how ast.parse ends.                                                     *)
(***************************************************************************)
MaxStmts == 3
MaxNest == 2

RECURSIVE Shift(_, _)
ShiftAll(stmts, k) ==
    IF Len(stmts) = 0 THEN <<>> ELSE [i \in DOMAIN stmts |-> Shift(stmts[i], k)]

\* the statement moved k lines down
Shift(stmt, k) ==
    LET p == [stmt EXCEPT !.lineno = @ + k, !.end_lineno = @ + k]
    IN  IF stmt.t = "If"
        THEN [p EXCEPT !.body = ShiftAll(@, k), !.orelse = ShiftAll(@, k)]
        ELSE IF stmt.t = "FunctionDef" THEN [p EXCEPT !.body = ShiftAll(@, k)]
        ELSE p

\* a piece of source: its statements, its lines as splitlines() cuts them, and
\* the number of lines the parser counts
Frag(stmts, text, nlines) == [stmts |-> stmts, text |-> text, nlines |-> nlines]
EmptyFrag == Frag(<<>>, <<>>, 0)
Simple(stmt, line) == Frag(<<stmt>>, <<line>>, 1)
\* a line holding only a form feed: one blank line to the parser, a line
\* boundary and so two empty lines to splitlines()
FormFeed == Frag(<<>>, << <<>>, <<>> >>, 1)
Cat(f, g) ==
    Frag(f.stmts \o ShiftAll(g.stmts, f.nlines), f.text \o g.text, f.nlines + g.nlines)
Indent(text) == IF Len(text) = 0 THEN <<>> ELSE [i \in DOMAIN text |-> <<" ">> \o text[i]]
IfFrag(b, e) ==
    Frag(<<If(Name("c"), ShiftAll(b.stmts, 1), ShiftAll(e.stmts, b.nlines + 2))>>,
         << <<"if c:">> >> \o Indent(b.text)
            \o (IF e.nlines > 0 THEN << <<"else:">> >> \o Indent(e.text) ELSE <<>>),
         1 + b.nlines + (IF e.nlines > 0 THEN 1 + e.nlines ELSE 0))
DefFrag(b) ==
    Frag(<<FunctionDef("f", ShiftAll(b.stmts, 1))>>,
         << <<"def f():">> >> \o Indent(b.text),
         1 + b.nlines)

DF == Name("df")
MCall(obj, method, args, keywords) == Call(Attribute(obj, method), args, keywords)
Foo == Call(Name("foo"), <<>>, <<>>)
Gt3(col) == Subscript(DF, Compare(Col(col), <<"Gt">>, <<Constant(PInt(3))>>))
Cols2 == Subscript(DF, ListNode(<<StrC("a"), StrC("b")>>))
GroupBy(args, keywords) == MCall(DF, "groupby", args, keywords)

S_read == Simple(Assign(<<DF>>, MCall(Name("pd"), "read_csv", <<StrC("a.csv")>>, <<>>)),
                 <<"df = pd.read_csv('a.csv')">>)
S_select == Simple(Assign(<<DF>>, Cols2), <<"df = df[['a', 'b']]">>)
S_sort == Simple(Assign(<<DF>>, MCall(DF, "sort_values", <<StrC("c")>>, <<>>)),
                 <<"df = df.sort_values('c')">>)
S_filter_big == Simple(Assign(<<DF>>,
                    Subscript(DF, Compare(Col("a"), <<"Gt">>, <<Constant(PBigInt)>>))),
                 <<"df = df[df['a'] > 0xFFFF]">>)
S_unrec == Simple(Assign(<<DF>>, Foo), <<"df = foo()">>)
S_other == Simple(Assign(<<Name("x")>>, Foo), <<"x = foo()">>)
S_aug == Simple(AugAssign(DF, "Add", Constant(PInt(1))), <<"df += 1">>)
S_computed == Simple(Assign(<<Col("c")>>, BinOp(Col("a"), "Mult", Constant(PInt(2)))),
                 <<"df['c'] = df['a'] * 2">>)
S_chart == Simple(Expr(MCall(Attribute(Name("matplotlib"), "pyplot"), "bar",
                             <<Col("x"), Col("y")>>, <<>>)),
                 <<"matplotlib.pyplot.bar(df['x'], df['y'])">>)
S_groupby_bytes == Simple(Assign(<<DF>>, GroupBy(<<Constant(PBytes("x"))>>, <<>>)),
                 <<"df = df.groupby(b'x')">>)

\* right-hand sides, one or more per idiom and per way of declining
FilterValues ==
    {Subscript(DF, Compare(Col("a"), <<op>>, <<Constant(v)>>)) :
        op \in {"Eq", "LtE", "Lt", "In"}, v \in {PInt(3), PStr("s"), PBool(TRUE), None}}
    \cup {Gt3("a"), Subscript(DF, Compare(Name("a"), <<"Gt">>, <<Constant(PInt(3))>>)),
          Subscript(DF, Compare(Col("a"), <<"Gt">>, <<Name("v")>>))}
SelectValues ==
    {Subscript(DF, ListNode(elts)) :
        elts \in {<<>>, <<StrC("a")>>, <<StrC("a"), StrC("b")>>, <<StrC("b"), StrC("a")>>,
                  <<Name("x")>>, <<StrC("a"), Name("x"), StrC("b")>>,
                  <<Name("x"), StrC("a")>>, <<Col("a"), StrC("b")>>}}
    \cup {Subscript(DF, TupleNode(<<StrC("a"), StrC("b")>>)), Col("a"),
          Subscript(DF, Name("mask"))}
DataSourceValues ==
    {MCall(Name(m), "read_csv", args, <<>>) :
        m \in {"pd", "pandas", "xx"}, args \in {<<>>, <<StrC("a.csv")>>, <<Name("path")>>}}
GroupArgs ==
    {<<StrC("x")>>, <<Name("col")>>, <<Constant(PInt(5))>>, <<Constant(None)>>,
     <<Constant(PBool(TRUE))>>, <<Constant(PBytes("x"))>>, <<>>}
GroupByValues ==
    {GroupBy(args, kws) :
        args \in GroupArgs,
        kws \in {<<>>, <<keyword("by", StrC("k"))>>, <<keyword("sort", Constant(PBool(FALSE)))>>}}
    \cup {MCall(Col("y"), "groupby", <<StrC("x")>>, <<>>)}
ChainedValues ==
    {MCall(Subscript(GroupBy(<<StrC("x")>>, <<>>), StrC("y")), m, <<>>, <<>>) :
        m \in {"sum", "mean", "median"}}
    \cup {MCall(GroupBy(args, <<>>), "count", <<>>, <<>>) : args \in {<<StrC("x")>>, <<>>}}
    \cup {MCall(Col("y"), "max", <<>>, <<>>)}
SortValues ==
    {MCall(DF, "sort_values", args, kws) :
        args \in {<<>>, <<StrC("c")>>},
        kws \in {<<>>, <<keyword("by", StrC("x")), keyword("ascending", Constant(PBool(FALSE)))>>,
                 <<keyword("ascending", Constant(PBool(TRUE)))>>}}
MeltValues ==
    {MCall(DF, "melt", <<>>, kws) :
        kws \in {<<>>,
                 <<keyword("id_vars", ListNode(<<StrC("i")>>)),
                   keyword("value_vars", ListNode(<<StrC("q"), StrC("r")>>))>>,
                 <<keyword("value_vars", ListNode(<<StrC("q")>>)),
                   keyword("var_name", StrC("k")), keyword("value_name", StrC("v"))>>,
                 <<keyword("value_vars", ListNode(<<Name("x")>>))>>}}
OtherValues == {Foo, BinOp(Col("a"), "Mult", Constant(PInt(2))), Constant(PInt(1))}

Values ==
    FilterValues \cup SelectValues \cup DataSourceValues \cup GroupByValues
        \cup ChainedValues \cup SortValues \cup MeltValues \cup OtherValues

\* single-target assignments: to df and to the column df["c"]; the one token
\* "target = value" stands for the text of the statement's line
AssignFrags ==
    {Simple(Assign(<<target>>, v), <<"target = value">>) :
        target \in {DF, Col("c")}, v \in Values}
    \cup {Simple(Assign(<<Col("c")>>, v), <<" ", "target = value", " ">>) : v \in OtherValues}
    \cup {Simple(Assign(<<TupleNode(<<DF, Name("y")>>)>>, Foo), <<"df, y = foo()">>),
          Simple(Assign(<<DF, Name("x")>>, Foo), <<"df = x = foo()">>),
          Simple(AnnAssign(DF, Name("T"), Foo), <<"df: T = foo()">>),
          S_aug, S_other, S_filter_big}

\* assignments to or from identifiers other than df
ForeignFrags ==
    {Simple(Assign(<<Name("other")>>, Subscript(Name("x"), ListNode(<<StrC("a")>>))),
            <<"other = x[['a']]">>),
     Simple(Assign(<<Name("tmp")>>, MCall(Name("y"), "sort_values", <<StrC("c")>>, <<>>)),
            <<"tmp = y.sort_values('c')">>),
     Simple(Assign(<<Name("other")>>,
                   Subscript(Name("x"), Compare(Subscript(Name("x"), StrC("a")), <<"Gt">>,
                                                <<Constant(PInt(3))>>))),
            <<"other = x[x['a'] > 3]">>),
     Simple(Assign(<<Name("tmp")>>, MCall(Name("y"), "groupby", <<StrC("x")>>, <<>>)),
            <<"tmp = y.groupby('x')">>),
     Simple(Assign(<<Name("tmp")>>,
                   MCall(Subscript(MCall(Name("y"), "groupby", <<StrC("x")>>, <<>>), StrC("v")),
                         "sum", <<>>, <<>>)),
            <<"tmp = y.groupby('x')['v'].sum()">>),
     Simple(Assign(<<Name("tmp")>>,
                   MCall(Name("y"), "melt", <<>>,
                         <<keyword("value_vars", ListNode(<<StrC("q")>>))>>)),
            <<"tmp = y.melt(value_vars=['q'])">>),
     Simple(Assign(<<Name("other")>>, MCall(Name("pd"), "read_csv", <<StrC("a.csv")>>, <<>>)),
            <<"other = pd.read_csv('a.csv')">>),
     Simple(Assign(<<Subscript(Name("other"), StrC("c"))>>,
                   BinOp(Subscript(Name("x"), StrC("a")), "Mult", Constant(PInt(2)))),
            <<"other['c'] = x['a'] * 2">>),
     Simple(Assign(<<Name("other")>>, Cols2), <<"other = df[['a', 'b']]">>),
     Simple(Assign(<<DF>>, Subscript(Name("x"), ListNode(<<StrC("a")>>))),
            <<"df = x[['a']]">>),
     Simple(Assign(<<DF>>, MCall(Name("y"), "sort_values", <<StrC("c")>>, <<>>)),
            <<"df = y.sort_values('c')">>),
     Simple(Assign(<<Name("other")>>, Name("x")), <<"other = x">>)}

ChartArgs == {<<>>, <<Col("y")>>, <<Col("x"), Col("y")>>, <<Col("x"), Name("v")>>,
              <<Name("v")>>, <<Col("x"), Col("y"), Col("z")>>}
ChartFrags ==
    {Simple(Expr(MCall(root, m, args, <<>>)), <<"plot call">>) :
        root \in {Name("plt"), Attribute(Name("matplotlib"), "pyplot"),
                  Attribute(Name("mpl"), "other")},
        m \in CHART_METHODS \cup {"hist"},
        args \in ChartArgs}
    \cup {Simple(Expr(Call(Name("print"), <<DF>>, <<>>)), <<"print(df)">>)}

\* statements nested in compound statements
NestFrags == {S_select, S_sort, S_unrec, S_chart}

RECURSIVE Progs(_, _)
Progs(frags, n) ==
    IF n = 0 THEN {EmptyFrag}
    ELSE Progs(frags, n - 1) \cup {Cat(p, f) : p \in Progs(frags, n - 1), f \in frags}

NestProgs == Progs(NestFrags, MaxNest) \ {EmptyFrag}

CompoundFrags ==
    {IfFrag(b, e) : b \in NestProgs, e \in NestProgs \cup {EmptyFrag}}
    \cup {DefFrag(Cat(IfFrag(b, e), c)) : b \in NestFrags, e \in NestFrags, c \in NestFrags}
    \cup {DefFrag(b) : b \in NestProgs}

\* the statements scripts of several statements are made of
CoreFrags ==
    {S_read, S_select, S_filter_big, S_unrec, S_other, S_aug, S_computed, S_chart,
     S_groupby_bytes, FormFeed, IfFrag(S_select, S_sort)}

Programs ==
    Progs(CoreFrags, MaxStmts) \cup AssignFrags \cup ForeignFrags \cup ChartFrags
        \cup CompoundFrags
        \cup {Cat(FormFeed, f) : f \in AssignFrags}

Source(grammar, frag) == [grammar |-> grammar, stmts |-> frag.stmts, text |-> frag.text]

\* "syntax": the text is not in the grammar; "deep": it is, and nests deeper than
\* the parser's tree construction can recurse
Sources ==
    {Source("ok", p) : p \in Programs}
    \cup {Source("syntax", Frag(<<>>, << <<"df = (">> >>, 1)),
          Source("deep", Frag(<<>>, << <<"x = 1+1+ ... +1">> >>, 1))}

(***************************************************************************)
(* main                                                                    *)
(***************************************************************************)
VARIABLES
    pc,               \* where main is: "parse", "visit", "done"
    source,           \* the text read from stdin
    lines,            \* extractor.lines
    todo,             \* the statements extractor.visit has still to reach, in order
    steps,            \* extractor.steps
    fallback_to_llm,  \* extractor.fallback_to_llm
    out,              \* the documents printed on stdout
    exit              \* "running", "ok" (main returned), "error" (an exception left main)

vars == <<pc, source, lines, todo, steps, fallback_to_llm, out, exit>>

Init ==
    /\ pc = "parse"
    /\ source \in Sources
    /\ lines = <<>>
    /\ todo = <<>>
    /\ steps = <<>>
    /\ fallback_to_llm = FALSE
    /\ out = <<>>
    /\ exit = "running"

\* tree = ast.parse(source); extractor = PipelineExtractor(source)
ParseOk ==
    /\ pc = "parse"
    /\ source.grammar = "ok"
    /\ pc' = "visit"
    /\ lines' = source.text
    /\ todo' = source.stmts
    /\ steps' = <<>>
    /\ fallback_to_llm' = FALSE
    /\ UNCHANGED <<source, out, exit>>

\* except SyntaxError: print the failure document and return
ParseSyntaxError ==
    /\ pc = "parse"
    /\ source.grammar = "syntax"
    /\ out' = Append(out, Failure)
    /\ pc' = "done"
    /\ exit' = "ok"
    /\ UNCHANGED <<source, lines, todo, steps, fallback_to_llm>>

\* ast.parse raises RecursionError, which main does not catch
ParseRaises ==
    /\ pc = "parse"
    /\ source.grammar = "deep"
    /\ pc' = "done"
    /\ exit' = "error"
    /\ UNCHANGED <<source, lines, todo, steps, fallback_to_llm, out>>

VisitAssign ==
    /\ pc = "visit"
    /\ Len(todo) > 0
    /\ IsInstance(todo[1], "Assign")
    /\ ~visit_raises(todo[1])
    /\ LET ex == visit_Assign(todo[1], Extractor(steps, fallback_to_llm), lines)
       IN  /\ steps' = ex.steps
           /\ fallback_to_llm' = ex.fallback_to_llm
    /\ todo' = Tail(todo)
    /\ UNCHANGED <<pc, source, lines, out, exit>>

VisitExpr ==
    /\ pc = "visit"
    /\ Len(todo) > 0
    /\ IsInstance(todo[1], "Expr")
    /\ LET ex == visit_Expr(todo[1], Extractor(steps, fallback_to_llm))
       IN  /\ steps' = ex.steps
           /\ fallback_to_llm' = ex.fallback_to_llm
    /\ todo' = Tail(todo)
    /\ UNCHANGED <<pc, source, lines, out, exit>>

\* a statement with no visitor of its own: generic_visit
VisitOther ==
    /\ pc = "visit"
    /\ Len(todo) > 0
    /\ ~IsInstance(todo[1], "Assign")
    /\ ~IsInstance(todo[1], "Expr")
    /\ todo' = generic_visit(todo[1]) \o Tail(todo)
    /\ UNCHANGED <<pc, source, lines, steps, fallback_to_llm, out, exit>>

\* the handler printing what was accumulated
VisitRaises_partial ==
    /\ pc = "visit"
    /\ Len(todo) > 0
    /\ visit_raises(todo[1])
    /\ out' = Append(out, result_of(steps, TRUE))
    /\ pc' = "done"
    /\ exit' = "ok"
    /\ UNCHANGED <<source, lines, todo, steps, fallback_to_llm>>

\* except Exception around extractor.visit: print the failure document and return
VisitRaises ==
    /\ pc = "visit"
    /\ Len(todo) > 0
    /\ visit_raises(todo[1])
    /\ out' = Append(out, Failure)
    /\ pc' = "done"
    /\ exit' = "ok"
    /\ UNCHANGED <<source, lines, todo, steps, fallback_to_llm>>

\* print(json.dumps(result))
PrintResult ==
    /\ pc = "visit"
    /\ Len(todo) = 0
    /\ ~dumps_raises(steps)
    /\ out' = Append(out, result_of(steps, fallback_to_llm))
    /\ pc' = "done"
    /\ exit' = "ok"
    /\ UNCHANGED <<source, lines, todo, steps, fallback_to_llm>>

\* json.dumps raises outside any try: nothing is printed
DumpsRaises ==
    /\ pc = "visit"
    /\ Len(todo) = 0
    /\ dumps_raises(steps)
    /\ pc' = "done"
    /\ exit' = "error"
    /\ UNCHANGED <<source, lines, todo, steps, fallback_to_llm, out>>

Next ==
    \/ ParseOk
    \/ ParseSyntaxError
    \/ ParseRaises
    \/ VisitAssign
    \/ VisitExpr
    \/ VisitOther
    \/ VisitRaises
    \/ PrintResult
    \/ DumpsRaises

Spec == Init /\ [][Next]_vars

(***************************************************************************)
(* Properties                                                              *)
(***************************************************************************)
\* the statements of a program in document order
DocChildren(stmt) ==
    IF stmt.t = "If" THEN stmt.body \o stmt.orelse
    ELSE IF stmt.t = "FunctionDef" THEN stmt.body
    ELSE <<>>

RECURSIVE Flatten(_)
Flatten(stmts) ==
    IF Len(stmts) = 0 THEN <<>>
    ELSE <<stmts[1]>> \o Flatten(DocChildren(stmts[1])) \o Flatten(Tail(stmts))

Statements == Flatten(source.stmts)

\* some statement of the program raises when it is visited
FaultIn == \E i \in DOMAIN Statements : visit_raises(Statements[i])

\* the steps one statement produces on an empty accumulator: none or one
StepsOf(stmt) ==
    IF IsInstance(stmt, "Assign")
    THEN visit_Assign(stmt, Extractor(<<>>, FALSE), source.text).steps
    ELSE IF IsInstance(stmt, "Expr") THEN visit_Expr(stmt, Extractor(<<>>, FALSE)).steps
    ELSE <<>>

Recognized(stmt) == Len(StepsOf(stmt)) > 0

RECURSIVE StepsInOrder(_)
StepsInOrder(stmts) ==
    IF Len(stmts) = 0 THEN <<>> ELSE StepsOf(stmts[1]) \o StepsInOrder(Tail(stmts))

Printed == pc = "done" /\ exit = "ok"

\* C1: every run of main prints exactly one document and returns normally; no
\* exception of parsing, traversal or serialization leaves main.
C1_OneDocumentNormalExit == pc = "done" => (Len(out) = 1 /\ exit = "ok")

TargetHasDf(target) ==
    \/ IsInstance(target, "Name") /\ target.id = df_name
    \/ /\ HasAttr(target, "elts")
       /\ \E i \in DOMAIN target.elts :
             IsInstance(target.elts[i], "Name") /\ target.elts[i].id = df_name

AssignsDf(stmt) ==
    \/ IsInstance(stmt, "Assign") /\ \E i \in DOMAIN stmt.targets : TargetHasDf(stmt.targets[i])
    \/ stmt.t \in {"AugAssign", "AnnAssign"} /\ TargetHasDf(stmt.target)

\* a computed-column assignment whose expression text came out empty
EmptySpan(stmt) ==
    /\ IsInstance(stmt, "Assign")
    /\ Len(stmt.targets) = 1
    /\ ~Recognized(stmt)
    /\ computed_target(stmt)
    /\ ~Truthy(unparse_simple(stmt, source.text))

\* C3: the printed fallbackToLlm is true exactly when some statement assigns to
\* df (single target, several targets, tuple target, augmented or annotated) and
\* matched no recognizer, or a computed-column expression text was empty, or an
\* exception occurred, or the source did not parse, or no step was produced.
C3_FallbackIff ==
    Printed =>
        (out[1].fallbackToLlm <=>
            \/ source.grammar # "ok"
            \/ FaultIn
            \/ Len(out[1].steps) = 0
            \/ \E i \in DOMAIN Statements :
                  \/ AssignsDf(Statements[i]) /\ ~Recognized(Statements[i])
                  \/ EmptySpan(Statements[i]))

\* C4: while the traversal runs, a visit leaves the step list as it was or
\* appends one step to it, never clears the fallback flag, and changes no step
\* when it sets the flag; a recognized statement followed by an unrecognized
\* assignment to df ends with exactly the one recognized step and the flag set.
RecognizedThenUnrecognized ==
    /\ source.grammar = "ok"
    /\ Len(source.stmts) = 2
    /\ ~FaultIn
    /\ Recognized(source.stmts[1])
    /\ IsInstance(source.stmts[2], "Assign")
    /\ Len(source.stmts[2].targets) = 1
    /\ TargetHasDf(source.stmts[2].targets[1])
    /\ ~Recognized(source.stmts[2])

C5_OrderPreserved ==
    (Printed /\ source.grammar = "ok" /\ ~FaultIn) =>
        out[1].steps = nodes_of(StepsInOrder(Statements))

\* three or more steps, some from statements nested in a compound statement
C5_Witness ==
    /\ Printed
    /\ source.grammar = "ok"
    /\ ~FaultIn
    /\ Len(out[1].steps) >= 3
    /\ \E i \in DOMAIN source.stmts :
          /\ HasAttr(source.stmts[i], "orelse")
          /\ \E j \in DOMAIN source.stmts[i].body : Recognized(source.stmts[i].body[j])
          /\ \E j \in DOMAIN source.stmts[i].orelse : Recognized(source.stmts[i].orelse[j])

\* the key set of each step kind
StepKeys ==
    [dataSource |-> {"fileName"},
     filter |-> {"column", "operator", "value"},
     select |-> {"columns"},
     groupBy |-> {"groupByColumn", "aggregateColumn", "aggregation"},
     sort |-> {"column", "direction"},
     reshape |-> {"keyColumn", "valueColumn", "pivotColumns"},
     computedColumn |-> {"newColumnName", "expression"},
     chart |-> {"chartType", "xAxis", "yAxis"}]

\* a string, a number or a sequence of strings
ConfigValue(v) ==
    \/ v.ty \in {"str", "int"}
    \/ v.ty = "list" /\ \A i \in DOMAIN v.items : v.items[i].ty = "str"

\* C6: every accumulated step has one of the eight kinds, exactly the keys of
\* its kind, and only strings, numbers and sequences of strings as values.
C6_StepDataModel ==
    \A i \in DOMAIN steps :
        /\ steps[i].kind \in DOMAIN StepKeys
        /\ DOMAIN steps[i].config = StepKeys[steps[i].kind]
        /\ \A k \in DOMAIN steps[i].config : ConfigValue(steps[i].config[k])

\* the program is the one statement it names
OnlyStatement == source.stmts[1]
SingleStatement == source.grammar = "ok" /\ Len(source.stmts) = 1

\* plt.<method>(...) with a method of the chart set and at most two arguments
IsPlotAliasCall(stmt) ==
    /\ IsInstance(stmt, "Expr")
    /\ IsInstance(stmt.value, "Call")
    /\ IsInstance(stmt.value.func, "Attribute")
    /\ stmt.value.func.value = Name("plt")
    /\ stmt.value.func.attr \in {"bar", "plot", "scatter", "pie"}
    /\ Len(stmt.value.args) <= 2

ClaimedChart(stmt) ==
    LET args == stmt.value.args
        kinds == [bar |-> "bar", plot |-> "line", scatter |-> "scatter", pie |-> "pie"]
    IN  Step("chart",
             [chartType |-> PStr(kinds[stmt.value.func.attr]),
              xAxis |-> IF Len(args) = 2 THEN Or(get_string_from_node(args[1]), PStr(""))
                        ELSE PStr(""),
              yAxis |-> IF Len(args) = 2 THEN Or(get_string_from_node(args[2]), PStr(""))
                        ELSE IF Len(args) = 1
                        THEN Or(get_string_from_node(args[1]), PStr(""))
                        ELSE PStr("")])

\* C7: an expression statement plt.bar/plot/scatter/pie(...) produces exactly one
\* chart step, chartType bar/line/scatter/pie, xAxis and yAxis from two
\* arguments, yAxis alone from one, "" for an argument that is no string.
C7_PlotAliasChart ==
    (pc = "done" /\ SingleStatement /\ IsPlotAliasCall(OnlyStatement)) =>
        steps = <<ClaimedChart(OnlyStatement)>>

\* target = df[[...]] or df[(...)]
IsListSelect(stmt) ==
    /\ IsInstance(stmt, "Assign")
    /\ Len(stmt.targets) = 1
    /\ IsInstance(stmt.value, "Subscript")
    /\ IsNode(stmt.value.slice)
    /\ stmt.value.slice.t \in {"List", "Tuple"}

AllResolve(elts) ==
    /\ Len(elts) > 0
    /\ \A i \in DOMAIN elts : get_string_from_node(elts[i]) # None

\* C8: get_column_list returns the strings of all elements when every element
\* resolves to a string and no value otherwise, so df = df[[...]] produces a
\* select step only then, with as many columns as the literal has elements.
C8_ColumnListAllOrNothing ==
    (pc = "done" /\ SingleStatement /\ IsListSelect(OnlyStatement)) =>
        LET elts == OnlyStatement.value.slice.elts
        IN  IF AllResolve(elts)
            THEN /\ steps = <<Step("select",
                        [columns |-> PList([i \in DOMAIN elts |->
                                                get_string_from_node(elts[i])])])>>
            ELSE /\ get_column_list(OnlyStatement.value) = None
                 /\ \A i \in DOMAIN steps : steps[i].kind # "select"

\* target = <obj>.groupby(...) where <obj> is no column selection
IsOneShotGroupBy(stmt) ==
    /\ IsInstance(stmt, "Assign")
    /\ Len(stmt.targets) = 1
    /\ IsInstance(stmt.value, "Call")
    /\ IsInstance(stmt.value.func, "Attribute")
    /\ stmt.value.func.attr = "groupby"
    /\ ~IsInstance(stmt.value.func.value, "Subscript")

\* C9: the groupBy step of an outermost groupby call without a column selection
\* has aggregateColumn equal to groupByColumn, the column given by position or
\* by the keyword by, and aggregation "count".
C9_OneShotAggregateDefault ==
    (pc = "done" /\ SingleStatement /\ IsOneShotGroupBy(OnlyStatement)) =>
        /\ Len(steps) = 1
        /\ steps[1].kind = "groupBy"
        /\ steps[1].config.aggregateColumn = steps[1].config.groupByColumn
        /\ steps[1].config.aggregation = PStr("count")

\* the recognizers of a single-target assignment in their priority
Priority(stmt, ls) ==
    <<filter_step(stmt.value), select_step(stmt.value),
      datasource_step(stmt.value), groupby_step(stmt.value), chained_step(stmt.value),
      sort_step(stmt.value), melt_step(stmt.value),
      computed_step(stmt, ls)>>

\* the first step of the sequence that is a step: none or one
FirstMatch(seq) ==
    LET hits == SelectSeq(seq, LAMBDA x : x # NoStep)
    IN  IF Len(hits) = 0 THEN <<>> ELSE <<hits[1]>>

\* C10: visiting an assignment with one target appends the step of the first
\* recognizer that matches, in the order filter, select, dataSource, one-shot
\* groupBy, chained aggregation, sort, reshape, computedColumn, and nothing else;
\* so an assignment to df["c"] whose right-hand side matches an earlier idiom gets
\* that idiom's step and no computedColumn step.
C10_FirstMatchWins ==
    [][(/\ pc = "visit"
        /\ pc' = "visit"
        /\ Len(todo) > 0
        /\ IsInstance(todo[1], "Assign")
        /\ Len(todo[1].targets) = 1) =>
            steps' = steps \o FirstMatch(Priority(todo[1], lines))]_vars

\* an assignment to df["c"] that the computedColumn recognizer would take, taken
\* by an earlier one
C10_Witness ==
    /\ pc = "done"
    /\ SingleStatement
    /\ IsInstance(OnlyStatement, "Assign")
    /\ Len(OnlyStatement.targets) = 1
    /\ computed_step(OnlyStatement, lines) # NoStep
    /\ Len(steps) = 1
    /\ steps[1].kind \in {"filter", "select", "dataSource", "groupBy", "sort", "reshape"}

\* the object an expression is taken from: the root of its chain of
\* subscripts, attributes and method calls, the left operand of an operation
RECURSIVE Operand(_)
Operand(node) ==
    IF IsInstance(node, "Subscript") \/ IsInstance(node, "Attribute") THEN Operand(node.value)
    ELSE IF IsInstance(node, "Call") /\ IsInstance(node.func, "Attribute")
    THEN Operand(node.func.value)
    ELSE IF IsInstance(node, "BinOp") THEN Operand(node.left)
    ELSE node

\* the target is df, or for a computedColumn step a subscript of df
TargetIsTracked(target, kind) ==
    \/ target = Name(df_name)
    \/ /\ kind = "computedColumn"
       /\ IsInstance(target, "Subscript")
       /\ target.value = Name(df_name)

\* the dataframe the right-hand side works on, when it names one, is df
\* (the receiver of read_csv is the library, not a dataframe)
OperandIsTracked(value, kind) ==
    \/ kind = "dataSource"
    \/ IsInstance(Operand(value), "Name") => Operand(value) = Name(df_name)

\* C11: an assignment emits a filter, select, dataSource, groupBy, sort, reshape
\* or computedColumn step only if its target is df (for computedColumn, a
\* subscript of df) and the dataframe operand of its right-hand side is df; an
\* assignment to or from another identifier emits no step.
C11_ScopedToTrackedVariable ==
    (/\ pc = "done"
     /\ SingleStatement
     /\ IsInstance(OnlyStatement, "Assign")
     /\ Len(OnlyStatement.targets) = 1) =>
        \A i \in DOMAIN steps :
            /\ TargetIsTracked(OnlyStatement.targets[1], steps[i].kind)
            /\ OperandIsTracked(OnlyStatement.value, steps[i].kind)

====
